---- MODULE Spec2Model ----
(***************************************************************************)
(* Static generation of the /posts/<id> pages of the blog.                 *)
(*                                                                         *)
(* pages/posts/[id].js exports getStaticPaths and getStaticProps; the      *)
(* helper module lib/posts.js (the Content Store and the resolver body)    *)
(* is modelled from the specification.  The build pipeline that drives     *)
(* the two exports is the one the README describes: getStaticPaths and     *)
(* getStaticProps run at build time in production and on every request in  *)
(* development; with fallback false a path that getStaticPaths did not     *)
(* return is a 404 page.                                                   *)
(***************************************************************************)
EXTENDS Integers, Sequences, FiniteSets, TLC

\* ---------------------------------------------------------------- bounds
MaxPosts == 2    \* records in the store; their ids are among 1..MaxPosts
MaxDate == 2     \* dates are 1..MaxDate, a later date is a larger number
MaxCalls == 2    \* calls of getStaticProps at request time

StoreIds == 1..MaxPosts
Dates == 1..MaxDate
\* "ok": a valid record; "malformed": its front matter cannot be parsed;
\* "badmd": valid front matter, the markdown transform fails on the body
Forms == {"ok", "malformed", "badmd"}
\* an id that no record of the store has
UnknownId == MaxPosts + 1
\* the ids a request or a params object can carry
Ids == StoreIds \cup {UnknownId}

VARIABLES
    available,  \* the backing source can be read
    store,      \* the records of the backing source, in source-enumeration order
    phase,      \* "start" | "building" | "done" | "failed" | "fatal" | "dev"
    paths,      \* the paths getStaticPaths returned
    fallback,   \* the fallback getStaticPaths returned ("unset" before)
    listing,    \* result of the last listAll call
    warnings,   \* warnings logged by the last listAll call
    status,     \* per id: "none" | "pending" | "inflight" | "done" | "failed"
    results,    \* per id: what the last completed getStaticProps call delivered
    calls,      \* per id: number of getStaticProps invocations
    response    \* the last response served

vars == <<available, store, phase, paths, fallback, listing, warnings,
          status, results, calls, response>>

\* ------------------------------------------------------------ Content Store
Record == [id : StoreIds, date : Dates, form : Forms]

Stores ==
    UNION { { s \in [1..n -> Record] :
                \A i, j \in 1..n : i # j => s[i].id # s[j].id } : n \in 0..MaxPosts }

Ok(v) == [tag |-> "ok", value |-> v]
Fail(e) == [tag |-> e]
None == [tag |-> "none"]

IsValid(r) == r.form # "malformed"

RawBody(r) == IF r.form = "badmd" THEN <<"bad", r.id>> ELSE <<"md", r.id>>

\* metadata of one record, as listAll returns it
Metadata(r) == [id |-> r.id, title |-> <<"title", r.id>>, date |-> r.date]

\* a full ContentItem, as getById returns it
ContentItem(r) ==
    [id |-> r.id, title |-> <<"title", r.id>>, date |-> r.date, rawBody |-> RawBody(r)]

\* x goes before the elements of equal date: ties end up reversed
InsertByDateUnstable(sorted, x) ==
    LET k == Cardinality({i \in DOMAIN sorted : sorted[i].date > x.date})
    IN  SubSeq(sorted, 1, k) \o <<x>> \o SubSeq(sorted, k + 1, Len(sorted))

\* x goes after every element whose date is not earlier than its own
InsertByDate(sorted, x) ==
    LET k == Cardinality({i \in DOMAIN sorted : sorted[i].date >= x.date})
    IN  SubSeq(sorted, 1, k) \o <<x>> \o SubSeq(sorted, k + 1, Len(sorted))

RECURSIVE SortByDateDesc(_)
SortByDateDesc(s) ==
    IF s = <<>> THEN <<>>
    ELSE InsertByDate(SortByDateDesc(SubSeq(s, 1, Len(s) - 1)), s[Len(s)])

\* every record is kept, the malformed ones too
ValidRecordsNoSkip(s) == s

ValidRecords(s) == SelectSeq(s, IsValid)

Malformed(s) == {i \in DOMAIN s : ~IsValid(s[i])}

\* listAll: metadata of the valid records, date descending, stable;
\* one warning per skipped record; StoreUnavailable when the source is unreadable
listAll(avail, s) ==
    IF ~avail THEN Fail("StoreUnavailable")
    ELSE LET valid == ValidRecords(s)
             sorted == SortByDateDesc(valid)
         IN  [tag |-> "ok",
              value |-> [i \in DOMAIN sorted |-> Metadata(sorted[i])],
              warnings |-> Cardinality(Malformed(s))]

\* getById: the full item, NotFound when no entry matches
getById(avail, s, id) ==
    IF ~avail THEN Fail("StoreUnavailable")
    ELSE IF \E i \in DOMAIN s : s[i].id = id /\ IsValid(s[i])
         THEN Ok(ContentItem(s[CHOOSE i \in DOMAIN s : s[i].id = id /\ IsValid(s[i])]))
         ELSE Fail("NotFound")

\* the markdown-to-HTML transform
Transform(rawBody) ==
    IF rawBody[1] = "bad" THEN Fail("RenderFailure") ELSE Ok(<<"html", rawBody[2]>>)

\* ---------------------------------------------------------------- lib/posts
getAllPostIds(avail, s) ==
    LET r == listAll(avail, s)
    IN  IF r.tag # "ok" THEN r
        ELSE Ok([i \in DOMAIN r.value |-> [params |-> [id |-> r.value[i].id]]])

\* resolve(id): getById, then the transform; failures propagate
getPostData(avail, s, id) ==
    LET item == getById(avail, s, id)
    IN  IF item.tag # "ok" THEN item
        ELSE LET html == Transform(item.value.rawBody)
             IN  IF html.tag # "ok" THEN html
                 ELSE Ok([id |-> item.value.id, title |-> item.value.title,
                          date |-> item.value.date, contentHtml |-> html.value])

\* ------------------------------------------------------ pages/posts/[id].js
\* reads the id under a key the route does not define
getStaticPropsWrongKey(avail, s, params) ==
    LET r == getPostData(avail, s, UnknownId)
    IN  IF r.tag # "ok" THEN r ELSE Ok([props |-> [postData |-> r.value]])

\* adds the number of the call to the props
getStaticPropsStamped(avail, s, params) ==
    LET r == getPostData(avail, s, params.id)
    IN  IF r.tag # "ok" THEN r
        ELSE Ok([props |-> [postData |-> r.value, generation |-> calls[params.id]]])

getStaticProps(avail, s, params) ==
    LET postData == getPostData(avail, s, params.id)
    IN  IF postData.tag # "ok" THEN postData
        ELSE Ok([props |-> [postData |-> postData.value]])

\* the first path is lost
getStaticPathsDropFirst(avail, s) ==
    LET r == getAllPostIds(avail, s)
    IN  IF r.tag # "ok" THEN r
        ELSE Ok([paths |-> IF r.value = <<>> THEN <<>> ELSE Tail(r.value), fallback |-> "false"])

\* fallback: 'blocking' in place of fallback: false
getStaticPathsBlocking(avail, s) ==
    LET r == getAllPostIds(avail, s)
    IN  IF r.tag # "ok" THEN r ELSE Ok([paths |-> r.value, fallback |-> "blocking"])

\* a failure of getAllPostIds is swallowed and no path is returned
getStaticPathsCatch(avail, s) ==
    LET r == getAllPostIds(avail, s)
    IN  IF r.tag # "ok" THEN Ok([paths |-> <<>>, fallback |-> "false"])
        ELSE Ok([paths |-> r.value, fallback |-> "false"])

getStaticPaths(avail, s) ==
    LET r == getAllPostIds(avail, s)
    IN  IF r.tag # "ok" THEN r ELSE Ok([paths |-> r.value, fallback |-> "false"])

PathIds(ps) == {ps[i].params.id : i \in DOMAIN ps}

RECURSIVE SumCalls(_, _)
SumCalls(c, S) ==
    IF S = {} THEN 0
    ELSE LET x == CHOOSE y \in S : TRUE IN c[x] + SumCalls(c, S \ {x})

\* getStaticProps invocations so far
TotalCalls == SumCalls(calls, Ids)

\* ------------------------------------------------------------------- state
Init ==
    /\ available \in BOOLEAN
    /\ store \in Stores
    /\ phase \in {"start", "dev"}
    /\ paths = <<>>
    /\ fallback = "unset"
    /\ listing = <<>>
    /\ warnings = 0
    /\ status = [id \in Ids |-> "none"]
    /\ results = [id \in Ids |-> None]
    /\ calls = [id \in Ids |-> 0]
    /\ response = [id |-> UnknownId, kind |-> "none"]

\* --------------------------------------------------- production build
\* In production getStaticPaths runs once, at build time.  A failure of the
\* id listing is not caught by getStaticPaths and ends the build.
BuildGetStaticPaths ==
    /\ phase = "start"
    /\ LET r == getStaticPaths(available, store)
           l == listAll(available, store)
       IN  IF r.tag # "ok"
           THEN /\ phase' = "fatal"
                /\ UNCHANGED <<paths, fallback, listing, warnings, status>>
           ELSE /\ phase' = "building"
                /\ paths' = r.value.paths
                /\ fallback' = r.value.fallback
                /\ listing' = IF l.tag = "ok" THEN l.value ELSE <<>>
                /\ warnings' = IF l.tag = "ok" THEN l.warnings ELSE 0
                /\ status' = [id \in Ids |->
                                IF id \in PathIds(r.value.paths) THEN "pending" ELSE "none"]
    /\ UNCHANGED <<available, store, results, calls, response>>

\* the build calls getStaticProps({params}) for a returned path; the call
\* suspends at the await of getPostData
StartResolve(id) ==
    /\ phase = "building"
    /\ status[id] = "pending"
    /\ status' = [status EXCEPT ![id] = "inflight"]
    /\ calls' = [calls EXCEPT ![id] = @ + 1]
    /\ UNCHANGED <<available, store, phase, paths, fallback, listing, warnings,
                   results, response>>

\* the id is kept in a variable the calls in flight share: a call that
\* resumes reads the id another call in flight has written
FinishResolveShared(id) ==
    /\ phase = "building"
    /\ status[id] = "inflight"
    /\ LET shared == CHOOSE j \in Ids : status[j] = "inflight"
           r == getStaticProps(available, store, [id |-> shared])
       IN  /\ results' = [results EXCEPT ![id] = r]
           /\ status' = [status EXCEPT ![id] = IF r.tag = "ok" THEN "done" ELSE "failed"]
    /\ UNCHANGED <<available, store, phase, paths, fallback, listing, warnings,
                   calls, response>>

\* the promise of a call whose getPostData rejects never settles
FinishResolveHangs(id) ==
    /\ phase = "building"
    /\ status[id] = "inflight"
    /\ LET r == getStaticProps(available, store, [id |-> id])
       IN  /\ r.tag = "ok"
           /\ results' = [results EXCEPT ![id] = r]
           /\ status' = [status EXCEPT ![id] = "done"]
    /\ UNCHANGED <<available, store, phase, paths, fallback, listing, warnings,
                   calls, response>>

\* the awaited getPostData settles: props for the page, or a rejection that
\* getStaticProps does not catch and that the build reports for this path
FinishResolve(id) ==
    /\ phase = "building"
    /\ status[id] = "inflight"
    /\ LET r == getStaticProps(available, store, [id |-> id])
       IN  /\ results' = [results EXCEPT ![id] = r]
           /\ status' = [status EXCEPT ![id] = IF r.tag = "ok" THEN "done" ELSE "failed"]
    /\ UNCHANGED <<available, store, phase, paths, fallback, listing, warnings,
                   calls, response>>

Rejected == {id \in Ids : status[id] = "failed"}

\* the build is over as soon as nothing is waiting to start
BuildSucceedEarly ==
    /\ phase = "building"
    /\ \A id \in Ids : status[id] # "pending"
    /\ Rejected = {}
    /\ phase' = "done"
    /\ UNCHANGED <<available, store, paths, fallback, listing, warnings,
                   status, results, calls, response>>

\* every returned path has been rendered
BuildSucceed ==
    /\ phase = "building"
    /\ \A id \in Ids : status[id] \in {"none", "done"}
    /\ phase' = "done"
    /\ UNCHANGED <<available, store, paths, fallback, listing, warnings,
                   status, results, calls, response>>

\* a rejection of getStaticProps is a build error: the failing paths are
\* collected while the other paths are rendered, then the build ends without
\* output
BuildFail ==
    /\ phase = "building"
    /\ \A id \in Ids : status[id] \in {"none", "done", "failed"}
    /\ Rejected # {}
    /\ phase' = "failed"
    /\ UNCHANGED <<available, store, paths, fallback, listing, warnings,
                   status, results, calls, response>>

\* the output mapping of a finished build
Output == [id \in {i \in Ids : status[i] = "done"} |-> results[id].value]

\* ------------------------------------------------------ request time
\* production server, after a successful build
Request(id) ==
    /\ phase = "done"
    /\ IF status[id] = "done"
       THEN /\ response' = [id |-> id, kind |-> "page"]
            /\ UNCHANGED <<status, results, calls>>
       ELSE IF fallback = "false"
       THEN \* a path getStaticPaths did not return is a 404 page
            /\ response' = [id |-> id, kind |-> "NotFoundPage"]
            /\ UNCHANGED <<status, results, calls>>
       ELSE \* fallback blocking (never returned by getStaticPaths as written):
            \* rendered with getStaticProps and cached
            /\ TotalCalls < MaxCalls
            /\ LET r == getStaticProps(available, store, [id |-> id])
               IN  /\ calls' = [calls EXCEPT ![id] = @ + 1]
                   /\ results' = [results EXCEPT ![id] = r]
                   /\ status' = [status EXCEPT ![id] =
                                   IF r.tag = "ok" THEN "done" ELSE @]
                   /\ response' = [id |-> id,
                                   kind |-> IF r.tag = "ok" THEN "page" ELSE "error"]
    /\ UNCHANGED <<available, store, phase, paths, fallback, listing, warnings>>

\* development server: getStaticPaths and getStaticProps run on every request
DevRequest(id) ==
    /\ phase = "dev"
    /\ TotalCalls < MaxCalls
    /\ LET r == getStaticPaths(available, store)
           l == listAll(available, store)
       IN  IF r.tag # "ok"
           THEN /\ response' = [id |-> id, kind |-> "error"]
                /\ UNCHANGED <<paths, fallback, listing, warnings, results, calls>>
           ELSE /\ paths' = r.value.paths
                /\ fallback' = r.value.fallback
                /\ listing' = IF l.tag = "ok" THEN l.value ELSE <<>>
                /\ warnings' = IF l.tag = "ok" THEN l.warnings ELSE 0
                /\ IF id \in PathIds(r.value.paths) \/ r.value.fallback # "false"
                   THEN LET p == getStaticProps(available, store, [id |-> id])
                        IN  /\ calls' = [calls EXCEPT ![id] = @ + 1]
                            /\ results' = [results EXCEPT ![id] = p]
                            /\ response' = [id |-> id,
                                            kind |-> IF p.tag = "ok" THEN "page" ELSE "error"]
                   ELSE /\ response' = [id |-> id, kind |-> "NotFoundPage"]
                        /\ UNCHANGED <<results, calls>>
    /\ UNCHANGED <<available, store, phase, status>>

Next ==
    \/ BuildGetStaticPaths
    \/ \E id \in Ids : StartResolve(id)
    \/ \E id \in Ids : FinishResolve(id)
    \/ BuildSucceed
    \/ BuildFail
    \/ \E id \in Ids : Request(id)
    \/ \E id \in Ids : DevRequest(id)

Spec == Init /\ [][Next]_vars

\* the resolutions are scheduled fairly, the reads of the store return, and
\* the build takes its final step once every resolution has settled
Fairness ==
    /\ \A id \in Ids : WF_vars(StartResolve(id))
    /\ \A id \in Ids : WF_vars(FinishResolve(id))
    /\ WF_vars(BuildSucceed)
    /\ WF_vars(BuildFail)

FairSpec == Spec /\ Fairness

TypeOK ==
    /\ available \in BOOLEAN
    /\ store \in Stores
    /\ phase \in {"start", "building", "done", "failed", "fatal", "dev"}
    /\ fallback \in {"unset", "false", "blocking"}
    /\ status \in [Ids -> {"none", "pending", "inflight", "done", "failed"}]
    /\ calls \in [Ids -> 0..MaxCalls]
    /\ warnings \in 0..MaxPosts

\* ------------------------------------------------------------- properties
ValidIds == {store[i].id : i \in {j \in DOMAIN store : IsValid(store[j])}}

IndexOf(id) == CHOOSE i \in DOMAIN store : store[i].id = id

Enumerated == fallback # "unset"

\* C1: with fallback false, a request for an id that getStaticPaths did not
\* return is answered with the NotFoundPage and getStaticProps is never
\* invoked for that id; when a request is served in production every returned
\* id has been resolved by the build.
C1_UnknownIdIsNotFound ==
    /\ \A id \in Ids :
         (Enumerated /\ id \notin PathIds(paths)) =>
             /\ calls[id] = 0
             /\ results[id] = None
             /\ (response.id = id /\ response.kind # "none" /\ phase = "done")
                    => response.kind = "NotFoundPage"
    /\ (phase = "done" /\ response.kind # "none") =>
         \A id \in PathIds(paths) : status[id] = "done" /\ results[id].tag = "ok"

C1_Witness ==
    /\ phase = "done"
    /\ response.kind = "NotFoundPage"
    /\ response.id \notin PathIds(paths)
    /\ PathIds(paths) # {}

\* C2: when a build finishes, the keys of its output mapping are exactly the
\* ids getStaticPaths returned, whatever the order the resolutions completed in.
C2_OutputKeysAreEnumerated ==
    phase = "done" => DOMAIN Output = PathIds(paths)

C2_Witness ==
    /\ phase = "done"
    /\ Cardinality(PathIds(paths)) >= 2
    /\ paths[1].params.id > paths[2].params.id
    /\ DOMAIN Output = PathIds(paths)

\* C3: the resolution of an id that getStaticPaths returned ends with props or
\* with a RenderFailure recorded for that id, never with NotFound.
C3_EnumeratedNeverNotFound ==
    \A id \in PathIds(paths) :
        /\ results[id].tag \in {"none", "ok", "RenderFailure"}
        /\ status[id] = "done" => results[id].tag = "ok"
        /\ status[id] = "failed" => results[id].tag = "RenderFailure"

C3_Witness ==
    \E a, b \in PathIds(paths) :
        /\ status[a] = "failed" /\ results[a].tag = "RenderFailure"
        /\ status[b] = "done" /\ results[b].tag = "ok"

\* C4: a RenderFailure of one id marks that id as failed, every other returned
\* id is still resolved, and the build does not abort.
C4_FailureIsIsolated ==
    /\ phase # "failed"
    /\ (Rejected # {} /\ phase \notin {"start", "building", "dev"}) =>
          /\ phase = "done"
          /\ \A id \in PathIds(paths) : status[id] \in {"done", "failed"}

\* C5: when the id listing fails with StoreUnavailable the build ends in the
\* fatal state: no id is resolved and there is no output.
C5_StoreUnavailableIsFatal ==
    ~available =>
        /\ phase \in {"start", "fatal", "dev"}
        /\ \A id \in Ids : calls[id] = 0 /\ results[id] = None /\ status[id] = "none"
        /\ paths = <<>>

C5_Witness == ~available /\ phase = "fatal" /\ store # <<>>

C8_PathsAreStoreIds ==
    Enumerated =>
        /\ PathIds(paths) = ValidIds
        /\ Len(paths) = Cardinality(ValidIds)
        /\ \A i \in DOMAIN paths : paths[i] = [params |-> [id |-> listing[i].id]]
        /\ Len(paths) = Len(listing)

C8_Witness == Enumerated /\ Len(paths) >= 1 /\ Len(store) > Len(paths)

\* C9: listAll returns its items by date descending, and items of equal date
\* keep the order of the source enumeration.
C9_SortedStable ==
    \A i, j \in DOMAIN listing :
        i < j =>
            /\ listing[i].date >= listing[j].date
            /\ listing[i].date = listing[j].date
                 => IndexOf(listing[i].id) < IndexOf(listing[j].id)

C9_Witness ==
    \E i, j \in DOMAIN listing :
        /\ i < j
        /\ listing[i].date = listing[j].date
        /\ IndexOf(listing[i].id) < IndexOf(listing[j].id)
        /\ listing[i].id > listing[j].id

\* C10: with malformed records among valid ones listAll does not fail: it
\* returns the valid records and only them, and logs one warning per
\* malformed record.
C10_SkipMalformed ==
    /\ phase = "fatal" => ~available
    /\ Enumerated =>
         /\ Len(listing) = Cardinality(ValidIds)
         /\ {listing[i].id : i \in DOMAIN listing} = ValidIds
         /\ \A i \in DOMAIN listing : listing[i] = Metadata(store[IndexOf(listing[i].id)])
         /\ warnings = Len(store) - Cardinality(ValidIds)

C10_Witness == Enumerated /\ warnings >= 1 /\ Len(listing) >= 1 /\ phase \in {"building", "dev"}

\* the record of the store that carries the id
RecordOf(id) == store[IndexOf(id)]

\* C11: resolutions that run concurrently do not interfere: whatever the
\* interleaving, the result delivered for an id is the one of resolving that
\* id alone against the store, and its postData holds data of that id only.
C11_NoInterference ==
    \A id \in Ids :
        results[id] # None =>
            /\ results[id] = getStaticProps(available, store, [id |-> id])
            /\ results[id].tag = "ok" =>
                 LET postData == results[id].value.props.postData
                 IN  /\ postData.id = id
                     /\ postData.title = <<"title", id>>
                     /\ postData.contentHtml = <<"html", id>>
                     /\ postData.date = RecordOf(id).date
            /\ results[id].tag = "RenderFailure" =>
                 (id \in ValidIds /\ RecordOf(id).form = "badmd")

\* a resolution has delivered while another one, started before, is in flight
C11_Witness ==
    \E a, b \in PathIds(paths) :
        /\ a # b
        /\ phase = "building"
        /\ status[a] = "done" /\ results[a].tag = "ok"
        /\ status[b] = "inflight"
        /\ RecordOf(a).date # RecordOf(b).date

\* every returned path has been attempted and has settled
AllSettled ==
    \A id \in PathIds(paths) : status[id] \in {"done", "failed"} /\ calls[id] >= 1

BuildOver == phase \in {"done", "failed"}

\* C12: under fair scheduling every build that has its enumeration completes,
\* and when it is over every returned id has been attempted and is resolved or
\* marked failed: none stays pending.
C12_BuildCompletes ==
    /\ (phase = "building") ~> (BuildOver /\ AllSettled)
    /\ [](BuildOver => AllSettled)

C12_Witness ==
    /\ phase = "failed"
    /\ \E a, b \in PathIds(paths) :
          /\ status[a] = "failed" /\ calls[a] = 1
          /\ status[b] = "done" /\ calls[b] = 1
====
